---- MODULE Spec2Model ----
(***************************************************************************)
(* Se3SpaceMouse (source/isaaclab/isaaclab/devices/spacemouse/             *)
(* se3_spacemouse.py): a polled 3D mouse turned into a 6-DoF delta pose    *)
(* and a gripper flag.                                                     *)
(*                                                                         *)
(* Numbers.  The program computes with float64.  Here a real x is the      *)
(* integer round(x * Unit): three decimals for everything the object       *)
(* stores or returns.  The Euler-to-rotation-vector conversion of advance()*)
(* is carried out with six decimals (Fine) and rounded to three at the     *)
(* end.  TLC's integers are 32 bits wide, so products are formed in halves.*)
(***************************************************************************)
EXTENDS Integers, Sequences, FiniteSets, TLC

Unit == 10^3
Fine == 10^6
Half == 10^3          \* Fine = Half * Half: the split used by MulFix

Abs(x) == IF x < 0 THEN -x ELSE x
Sgn(x) == IF x < 0 THEN -1 ELSE 1

\* x / d rounded to the nearest integer, halves away from zero (d > 0).
RoundDiv(x, d) == Sgn(x) * ((2 * Abs(x) + d) \div (2 * d))

\* a * b of two Fine-scaled numbers, Fine-scaled; no intermediate exceeds 2^31.
MulFix(a, b) ==
    LET A  == Abs(a)
        B  == Abs(b)
        ah == A \div Half
        al == A % Half
        bh == B \div Half
        bl == B % Half
        t  == ah * bl + al * bh + RoundDiv(al * bl, Half)
    IN  Sgn(a) * Sgn(b) * (ah * bh + RoundDiv(t, Half))

\* Long division: the digits of r / b after the quotient q, `digits' of them.
RECURSIVE DivDigits(_, _, _, _)
DivDigits(q, r, b, digits) ==
    IF digits = 0
    THEN IF 2 * r >= b THEN q + 1 ELSE q
    ELSE DivDigits(q * 10 + (r * 10) \div b, (r * 10) % b, b, digits - 1)

\* a / b of two Fine-scaled numbers, Fine-scaled (b > 0).
DivFix(a, b) == Sgn(a) * DivDigits(Abs(a) \div b, Abs(a) % b, b, 6)

\* sin and cos by their power series: term is x^(k-1)/(k-1)!, terms k..n remain.
RECURSIVE SinCosSeries(_, _, _, _, _, _)
SinCosSeries(x, k, n, term, s, c) ==
    IF k > n
    THEN <<s, c>>
    ELSE LET t == RoundDiv(MulFix(term, x), k)
         IN  SinCosSeries(x, k + 1, n, t,
                          IF k % 4 = 1 THEN s + t ELSE IF k % 4 = 3 THEN s - t ELSE s,
                          IF k % 4 = 2 THEN c - t ELSE IF k % 4 = 0 THEN c + t ELSE c)

SeriesTerms == 4 * 4
SinCos(x) == SinCosSeries(x, 1, SeriesTerms, Fine, 0, Fine)
Sin(x) == SinCos(x)[1]
Cos(x) == SinCos(x)[2]

\* Square root by Newton's iteration s <- (s + v/s) / 2.
RECURSIVE SqrtIter(_, _, _)
SqrtIter(v, s, iters) ==
    IF iters = 0 \/ s = 0 THEN s ELSE SqrtIter(v, (s + DivFix(v, s)) \div 2, iters - 1)

SqrtFix(v) == IF v <= 0 THEN 0 ELSE SqrtIter(v, IF v < Fine THEN Fine ELSE v, 20)

\* atan2(n, w) for n >= 0 and (n, w) of length one: the angle th in [0, pi]
\* with sin th = n, cos th = w, by th <- th + sin(phi - th).
RECURSIVE Atan2Iter(_, _, _, _)
Atan2Iter(n, w, th, iters) ==
    IF iters = 0
    THEN th
    ELSE LET sc == SinCos(th)
         IN  Atan2Iter(n, w, th + MulFix(n, sc[2]) - MulFix(w, sc[1]), iters - 1)

HalfPi == 3141593 \div 2
Atan2Fix(n, w) == Atan2Iter(n, w, IF w < 0 THEN HalfPi ELSE 0, 6)

\* Quaternions are <<x, y, z, w>>, scalar last, as in scipy.
\* scipy _compose_quat: the product p * q.
compose_quat(p, q) ==
    << MulFix(p[4], q[1]) + MulFix(q[4], p[1]) + MulFix(p[2], q[3]) - MulFix(p[3], q[2]),
       MulFix(p[4], q[2]) + MulFix(q[4], p[2]) + MulFix(p[3], q[1]) - MulFix(p[1], q[3]),
       MulFix(p[4], q[3]) + MulFix(q[4], p[3]) + MulFix(p[1], q[2]) - MulFix(p[2], q[1]),
       MulFix(p[4], q[4]) - MulFix(p[1], q[1]) - MulFix(p[2], q[2]) - MulFix(p[3], q[3]) >>

\* scipy _make_elementary_quat: the rotation by `angle' about coordinate axis i.
make_elementary_quat(i, angle) ==
    LET sc == SinCos(RoundDiv(angle, 2))
    IN  [k \in 1..4 |-> IF k = i THEN sc[1] ELSE IF k = 4 THEN sc[2] ELSE 0]

\* Rotation.from_euler("XYZ", e): upper-case letters are intrinsic rotations,
\* composed left to right.
from_euler_XYZ(e) ==
    compose_quat(compose_quat(make_elementary_quat(1, e[1]),
                              make_elementary_quat(2, e[2])),
                 make_elementary_quat(3, e[3]))

\* Rotation.as_rotvec(): axis times angle, the angle in [0, pi].
as_rotvec(quat) ==
    LET q     == IF quat[4] < 0 THEN [k \in 1..4 |-> -quat[k]] ELSE quat
        n     == SqrtFix(MulFix(q[1], q[1]) + MulFix(q[2], q[2]) + MulFix(q[3], q[3]))
        angle == 2 * Atan2Fix(n, q[4])
        a2    == MulFix(angle, angle)
        scale == IF angle <= Fine \div Unit
                 THEN 2 * Fine + RoundDiv(a2, 12) + RoundDiv(7 * MulFix(a2, a2), 2880)
                 ELSE DivFix(angle, Sin(RoundDiv(angle, 2)))
    IN  [k \in 1..3 |-> MulFix(scale, q[k])]

\* Rotation.from_euler("XYZ", delta_rot).as_rotvec() on Unit-scaled vectors.
EulerXYZToRotvec(e) ==
    LET fine == [k \in 1..3 |-> e[k] * (Fine \div Unit)]
        r    == as_rotvec(from_euler_XYZ(fine))
    IN  [k \in 1..3 |-> RoundDiv(r[k], Fine \div Unit)]

(***************************************************************************)
(* The object.  `self' holds the fields of one Se3SpaceMouse; _state is    *)
(* the sample last read from the device, buttons <<left, right>>.          *)
(***************************************************************************)
VARIABLES
    self,           \* the fields of the Se3SpaceMouse object
    twin,           \* a second object fed the same inputs, started with the other read_rotation
    pc,             \* position of the poll handler: "idle" when none is running
    active,         \* number of executions of _listen_for_updates in progress
    timers,         \* number of armed timers
    op,             \* the step taken last
    ret,            \* value returned by the last call when it was advance(), else <<>>
    twin_ret,       \* the same for the twin
    prev_buttons,   \* buttons of the sample of the poll before the current one
    branch,         \* branch of the if/elif chain the current (or last) poll took
    called,         \* keys of the additional callbacks invoked by the current (or last) poll
    held,           \* number of consecutive left-only polls up to the last one
    hold_toggles,   \* toggles of close_gripper during the current (or last) run of left-only polls
    nadv,           \* number of advance() calls since the last other step
    left_odd,       \* an odd number of left-only polls since construction, the last reset() call
                    \* and the last right-only poll
    both_odd,       \* an odd number of both-pressed polls since construction
    polled          \* the timer has invoked the handler at least once

vars == <<self, twin, pc, active, timers, op, ret, twin_ret, prev_buttons, branch,
          called, held, hold_toggles, nadv, left_odd, both_odd, polled>>

MaxHold == 3        \* longest run of consecutive left-only polls explored
MaxAdvance == 2     \* most consecutive advance() calls explored

zeros3 == <<0, 0, 0>>                                   \* np.zeros(3)
ZeroAxes == <<0, 0, 0, 0, 0, 0>>

DefaultPosSensitivity == (4 * Unit) \div 10              \* pos_sensitivity: float = 0.4
DefaultRotSensitivity == (8 * Unit) \div 10              \* rot_sensitivity: float = 0.8

PosSensitivities == {DefaultPosSensitivity, Unit}
RotSensitivities == {DefaultRotSensitivity, 2 * Unit}

\* The axis vectors a sample may carry (x, y, z, roll, pitch, yaw), device units.
RawAxes ==
    { ZeroAxes,
      <<Unit, 0, 0, 0, 0, 0>>,
      <<0, 0, 0, Unit, 0, 0>>,
      <<-Unit, Unit \div 2, 0, Unit \div 2, -Unit, Unit>> }

RawStates == [axes : RawAxes, buttons : BOOLEAN \X BOOLEAN]

Keys == {"L", "R"}

\* The first test of the chain without its `and not buttons[1]'.
IsLeftOnly_ignores_right(b) == b[1]

IsLeftOnly(b)  == b[1] /\ ~b[2]          \* buttons[0] and not buttons[1]
IsRightOnly(b) == b[2] /\ ~b[1]          \* buttons[1] and not buttons[0]
IsBoth(b)      == b[1] /\ b[2]           \* buttons[0] and buttons[1]

\* sensitivity * twist[a:b]
ScaleVec(k, v) == [i \in 1..Len(v) |-> RoundDiv(k * v[i], Unit)]

\* __init__
construct(pos, rot) ==
    [ pos_sensitivity      |-> pos,
      rot_sensitivity      |-> rot,
      read_rotation        |-> FALSE,
      close_gripper        |-> FALSE,
      delta_pos            |-> zeros3,
      delta_rot            |-> zeros3,
      state                |-> [axes |-> ZeroAxes, buttons |-> <<FALSE, FALSE>>],
      additional_callbacks |-> {} ]

\* reset() that leaves the gripper flag alone.
reset_keeps_gripper(s) ==
    [s EXCEPT !.delta_pos = zeros3, !.delta_rot = zeros3]

\* reset() that puts every flag back to its default, read_rotation included.
reset_all_flags(s) ==
    [s EXCEPT !.close_gripper = FALSE, !.read_rotation = FALSE,
              !.delta_pos = zeros3, !.delta_rot = zeros3]

\* reset()
reset(s) ==
    [s EXCEPT !.close_gripper = FALSE, !.delta_pos = zeros3, !.delta_rot = zeros3]

\* The conversion ended by as_quat() instead of as_rotvec().
Rotvec_as_quat(e) ==
    LET q == from_euler_XYZ([k \in 1..3 |-> e[k] * (Fine \div Unit)])
    IN  [k \in 1..4 |-> RoundDiv(q[k], Fine \div Unit)]

\* The values delta_rot takes after a poll or a reset, and their rotation
\* vectors, computed once.
DeltaRots ==
    {zeros3} \cup {ScaleVec(k, SubSeq(a, 4, 6)) : k \in RotSensitivities, a \in RawAxes}
RotvecTable == [e \in DeltaRots |-> EulerXYZToRotvec(e)]
Rotvec(e) == IF e \in DeltaRots THEN RotvecTable[e] ELSE EulerXYZToRotvec(e)

\* advance() that clears the gripper flag once it has been read.
advance_clears_flag(s) ==
    [ obj   |-> [s EXCEPT !.close_gripper = FALSE],
      value |-> << s.delta_pos \o Rotvec(s.delta_rot), s.close_gripper >> ]

\* advance() that reports the rotation only while read_rotation is set.
advance_reads_rotation(s) ==
    [ obj   |-> s,
      value |-> << s.delta_pos \o (IF s.read_rotation THEN Rotvec(s.delta_rot) ELSE zeros3),
                   s.close_gripper >> ]

\* advance(): the object afterwards and the value returned.
advance(s) ==
    [ obj   |-> s,
      value |-> << s.delta_pos \o Rotvec(s.delta_rot), s.close_gripper >> ]

\* add_callback(key, func) of the base class
add_callback(s, key) ==
    [s EXCEPT !.additional_callbacks = @ \cup {key}]

\* _read_mouse_state() of the base class: the device's sample becomes _state
read_mouse_state(s, raw) == [s EXCEPT !.state = raw]

\* _transform_state_to_twist(state) of the base class
transform_state_to_twist(state) == state.axes

\* _process_twist_command that adds the scaled twist to the stored deltas.
process_twist_command_accumulates(s, twist) ==
    [s EXCEPT !.delta_pos = [i \in 1..3 |-> @[i] + ScaleVec(s.pos_sensitivity, SubSeq(twist, 1, 3))[i]],
              !.delta_rot = [i \in 1..3 |-> @[i] + ScaleVec(s.rot_sensitivity, SubSeq(twist, 4, 6))[i]]]

\* _process_twist_command(twist)
process_twist_command(s, twist) ==
    [s EXCEPT !.delta_pos = ScaleVec(s.pos_sensitivity, SubSeq(twist, 1, 3)),
              !.delta_rot = ScaleVec(s.rot_sensitivity, SubSeq(twist, 4, 6))]

\* The branch of the if/elif chain of _listen_for_updates that _state selects.
button_branch(s) ==
    IF IsLeftOnly(s.state.buttons) THEN "left"
    ELSE IF IsRightOnly(s.state.buttons) THEN "right"
    ELSE IF IsBoth(s.state.buttons) THEN "both"
    ELSE "none"

\* The chain with a both-pressed branch that sets read_rotation instead of toggling it.
button_effect_sets_rotation(s) ==
    CASE button_branch(s) = "left"  -> [s EXCEPT !.close_gripper = ~@]
      [] button_branch(s) = "right" -> reset(s)
      [] button_branch(s) = "both"  -> [s EXCEPT !.read_rotation = TRUE]
      [] OTHER                      -> s

\* What that branch does to the object.
button_effect(s) ==
    CASE button_branch(s) = "left"  -> [s EXCEPT !.close_gripper = ~@]
      [] button_branch(s) = "right" -> reset(s)
      [] button_branch(s) = "both"  -> [s EXCEPT !.read_rotation = ~@]
      [] OTHER                      -> s

\* The additional callbacks that branch invokes.  The handler evaluates
\* self._additional_callbacks["L"] (or ["R"]) and drops the result: the entry is
\* looked up, never called.
button_callbacks(s) == {}

\* Whether a caller (advance, reset, add_callback) may run now: the caller and the
\* poll handler share one thread, so only between two executions of the handler.
caller_may_run == active = 0

\* Whether the timer may invoke the handler now: one thread, so not while the
\* handler is running.
timer_may_fire == timers > 0 /\ active = 0

Init ==
    /\ \E pos \in PosSensitivities, rot \in RotSensitivities :
          /\ self = construct(pos, rot)
          /\ twin = [construct(pos, rot) EXCEPT !.read_rotation = TRUE]
    /\ pc = "idle"
    /\ active = 0
    /\ timers = 1
    /\ op = "init"
    /\ ret = <<>>
    /\ twin_ret = <<>>
    /\ prev_buttons = <<FALSE, FALSE>>
    /\ branch = "none"
    /\ called = {}
    /\ held = 0
    /\ hold_toggles = 0
    /\ nadv = 0
    /\ left_odd = FALSE
    /\ both_odd = FALSE
    /\ polled = FALSE

\* A call of advance().
Advance ==
    /\ caller_may_run
    /\ nadv < MaxAdvance
    /\ self' = advance(self).obj
    /\ ret' = advance(self).value
    /\ twin' = advance(twin).obj
    /\ twin_ret' = advance(twin).value
    /\ op' = "advance"
    /\ nadv' = nadv + 1
    /\ UNCHANGED <<pc, active, timers, prev_buttons, branch, called, held, hold_toggles>>
    /\ UNCHANGED <<left_odd, both_odd, polled>>

\* A call of reset().
Reset ==
    /\ caller_may_run
    /\ self' = reset(self)
    /\ twin' = reset(twin)
    /\ op' = "reset"
    /\ ret' = <<>>
    /\ twin_ret' = <<>>
    /\ nadv' = 0
    /\ UNCHANGED <<pc, active, timers, prev_buttons, branch, called, held, hold_toggles>>
    /\ left_odd' = FALSE
    /\ UNCHANGED <<both_odd, polled>>

\* A call of add_callback(key, func).
AddCallback ==
    /\ caller_may_run
    /\ \E key \in Keys \ self.additional_callbacks :
          /\ self' = add_callback(self, key)
          /\ twin' = add_callback(twin, key)
    /\ op' = "add_callback"
    /\ ret' = <<>>
    /\ twin_ret' = <<>>
    /\ nadv' = 0
    /\ UNCHANGED <<pc, active, timers, prev_buttons, branch, called, held, hold_toggles>>
    /\ UNCHANGED <<left_odd, both_odd, polled>>

\* The timer expires and invokes _listen_for_updates.
TimerFires ==
    /\ timer_may_fire
    /\ timers' = timers - 1
    /\ active' = active + 1
    /\ pc' = "start_timer"
    /\ op' = "fire"
    /\ ret' = <<>>
    /\ twin_ret' = <<>>
    /\ nadv' = 0
    /\ UNCHANGED <<self, twin, prev_buttons, branch, called, held, hold_toggles>>
    /\ polled' = TRUE
    /\ UNCHANGED <<left_odd, both_odd>>

\* _listen_for_updates without its first statement: the timer is not armed again.
ListenStartTimer_not_rearmed ==
    /\ pc = "start_timer"
    /\ pc' = "read"
    /\ op' = "start_timer"
    /\ UNCHANGED <<self, twin, active, timers, ret, twin_ret, prev_buttons, branch, called,
                   held, hold_toggles, nadv>>
    /\ UNCHANGED <<left_odd, both_odd, polled>>

\* _listen_for_updates: self._start_timer()
ListenStartTimer ==
    /\ pc = "start_timer"
    /\ timers' = timers + 1
    /\ pc' = "read"
    /\ op' = "start_timer"
    /\ UNCHANGED <<self, twin, active, ret, twin_ret, prev_buttons, branch, called,
                   held, hold_toggles, nadv>>
    /\ UNCHANGED <<left_odd, both_odd, polled>>

\* _listen_for_updates: self._read_mouse_state()
ListenReadMouseState ==
    /\ pc = "read"
    /\ \E raw \in RawStates :
          /\ IsLeftOnly(raw.buttons) => held < MaxHold
          /\ self' = read_mouse_state(self, raw)
          /\ twin' = read_mouse_state(twin, raw)
    /\ prev_buttons' = self.state.buttons
    /\ pc' = "buttons"
    /\ op' = "read"
    /\ UNCHANGED <<active, timers, ret, twin_ret, branch, called, held, hold_toggles, nadv>>
    /\ UNCHANGED <<left_odd, both_odd, polled>>

\* _listen_for_updates: the if/elif chain over the buttons
ListenButtons ==
    /\ pc = "buttons"
    /\ self' = button_effect(self)
    /\ twin' = button_effect(twin)
    /\ branch' = button_branch(self)
    /\ called' = button_callbacks(self)
    /\ held' = IF IsLeftOnly(self.state.buttons) THEN held + 1 ELSE 0
    /\ hold_toggles' =
          LET t == IF self'.close_gripper # self.close_gripper /\ button_branch(self) # "right"
                   THEN 1 ELSE 0
          IN  (IF IsLeftOnly(prev_buttons) THEN hold_toggles ELSE 0) + t
    /\ pc' = "twist"
    /\ op' = "buttons"
    /\ UNCHANGED <<active, timers, ret, twin_ret, prev_buttons, nadv>>
    /\ LET b == self.state.buttons IN
          /\ left_odd' = IF b[1] /\ ~b[2] THEN ~left_odd
                          ELSE IF b[2] /\ ~b[1] THEN FALSE ELSE left_odd
          /\ both_odd' = IF b[1] /\ b[2] THEN ~both_odd ELSE both_odd
    /\ UNCHANGED polled

\* _listen_for_updates: twist = _transform_state_to_twist(_state);
\* _process_twist_command(twist); return
ListenProcessTwist ==
    /\ pc = "twist"
    /\ self' = process_twist_command(self, transform_state_to_twist(self.state))
    /\ twin' = process_twist_command(twin, transform_state_to_twist(twin.state))
    /\ pc' = "idle"
    /\ active' = active - 1
    /\ op' = "poll"
    /\ UNCHANGED <<timers, ret, twin_ret, prev_buttons, branch, called, held,
                   hold_toggles, nadv>>
    /\ UNCHANGED <<left_odd, both_odd, polled>>

Next ==
    \/ Advance
    \/ Reset
    \/ AddCallback
    \/ TimerFires
    \/ ListenStartTimer
    \/ ListenReadMouseState
    \/ ListenButtons
    \/ ListenProcessTwist

Spec == Init /\ [][Next]_vars

\* An armed timer expires in the end, and a handler that has started runs to its
\* return: none of its statements blocks.
FairSpec ==
    /\ Spec
    /\ WF_vars(TimerFires)
    /\ WF_vars(ListenStartTimer)
    /\ WF_vars(ListenReadMouseState)
    /\ WF_vars(ListenButtons)
    /\ WF_vars(ListenProcessTwist)

(***************************************************************************)
(* The claims.                                                             *)
(***************************************************************************)
ButtonsDone == op \in {"buttons", "poll"}     \* the if/elif chain of a poll has just run
Sample == self.state                          \* the sample of the current (or last) poll

\* C1: the gripper toggle is edge-triggered: over a press of the left button alone
\* (a run of k >= 1 consecutive left-only polls, and its release) close_gripper is
\* toggled exactly once, whatever k is.
C1_ToggleOncePerPress ==
    ButtonsDone /\ (IsLeftOnly(Sample.buttons) \/ IsLeftOnly(prev_buttons))
        => hold_toggles = 1

\* C2, as stated: after a right-only poll the deltas are zero and close_gripper is
\* false, for every axis value of the sample, and advance() returns zero and false.
C2_RightOnlyLeavesZero ==
    op = "poll" /\ IsRightOnly(Sample.buttons)
        => /\ self.delta_pos = zeros3
           /\ self.delta_rot = zeros3
           /\ ~self.close_gripper
           /\ advance(self).value = <<ZeroAxes, FALSE>>

\* C2, amended: after a right-only poll close_gripper is false and the deltas are the
\* scaled axes of that poll's sample; advance() right after it returns false, and the
\* zero 6-vector when those axes are all zero.
C2_RightOnlyClearsGripper ==
    op = "poll" /\ IsRightOnly(Sample.buttons)
        => /\ ~self.close_gripper
           /\ self.delta_pos = ScaleVec(self.pos_sensitivity, SubSeq(Sample.axes, 1, 3))
           /\ self.delta_rot = ScaleVec(self.rot_sensitivity, SubSeq(Sample.axes, 4, 6))
           /\ advance(self).value[2] = FALSE
           /\ Sample.axes = ZeroAxes => advance(self).value[1] = ZeroAxes

C2_Witness ==
    /\ op = "poll"
    /\ IsRightOnly(Sample.buttons)
    /\ IsLeftOnly(prev_buttons)
    /\ self.delta_pos # zeros3
    /\ self.delta_rot # zeros3

\* C3: after every poll, whatever the buttons and the history, delta_pos is
\* pos_sensitivity times the first three axes of the sample and delta_rot is
\* rot_sensitivity times the last three; axes [1,0,0,0,0,0] at sensitivity 0.4 give
\* delta_pos [0.4,0,0].
C3_DeltasAreScaledSample ==
    op = "poll"
        => /\ self.delta_pos = [i \in 1..3 |-> RoundDiv(self.pos_sensitivity * Sample.axes[i], Unit)]
           /\ self.delta_rot = [i \in 1..3 |-> RoundDiv(self.rot_sensitivity * Sample.axes[i + 3], Unit)]
           /\ (Sample.axes = <<Unit, 0, 0, 0, 0, 0>> /\ self.pos_sensitivity = DefaultPosSensitivity)
                 => self.delta_pos = <<(4 * Unit) \div 10, 0, 0>>

C3_Witness ==
    /\ op = "poll"
    /\ Sample.axes = <<Unit, 0, 0, 0, 0, 0>>
    /\ IsRightOnly(Sample.buttons)
    /\ self.pos_sensitivity = DefaultPosSensitivity
    /\ self.delta_pos = <<(4 * Unit) \div 10, 0, 0>>

\* C4: a poll flips close_gripper by the toggle only if its sample is left-only and
\* the sample of the poll before was not; the only other flip is the reset of a
\* right-only poll, never in the same poll as the toggle.
C4_FlipOnlyOnRisingEdge ==
    [][ pc = "buttons" /\ self'.close_gripper # self.close_gripper
          => \/ branch' = "right" /\ ~self'.close_gripper
             \/ /\ branch' = "left"
                /\ IsLeftOnly(Sample.buttons)
                /\ ~IsLeftOnly(prev_buttons) ]_vars

\* C5: advance() is a pure read: it leaves delta_pos, delta_rot, close_gripper and
\* read_rotation as they are, the pair it returns carries the current close_gripper
\* and the current delta_pos as its first three components, and a call that follows
\* another with nothing in between returns the same pair.
C5_AdvancePureRead ==
    [][ op' = "advance"
          => /\ self'.delta_pos = self.delta_pos
             /\ self'.delta_rot = self.delta_rot
             /\ self'.close_gripper = self.close_gripper
             /\ self'.read_rotation = self.read_rotation
             /\ ret'[2] = self.close_gripper
             /\ SubSeq(ret'[1], 1, 3) = self.delta_pos
             /\ op = "advance" => ret' = ret ]_vars

C5_Witness ==
    /\ op = "advance"
    /\ nadv = 2
    /\ ret[2] = TRUE
    /\ SubSeq(ret[1], 1, 3) # zeros3
    /\ self.read_rotation

\* C6: reset() can be called in every state a caller can reach and does not fail;
\* called by the user or by a right-only poll, it sets close_gripper to false and
\* both deltas to zero, leaves read_rotation and the sensitivities as they are, and
\* a second reset() changes nothing more.
C6_ResetFrame ==
    /\ [](caller_may_run => ENABLED Reset)
    /\ [][ op' = "reset" \/ (pc = "buttons" /\ IsRightOnly(Sample.buttons))
             => /\ ~self'.close_gripper
                /\ self'.delta_pos = zeros3
                /\ self'.delta_rot = zeros3
                /\ self'.read_rotation = self.read_rotation
                /\ self'.pos_sensitivity = self.pos_sensitivity
                /\ self'.rot_sensitivity = self.rot_sensitivity
                /\ reset(self') = self' ]_vars

C6_Witness ==
    /\ op = "reset"
    /\ self.read_rotation
    /\ IsLeftOnly(Sample.buttons)
    /\ Sample.axes # ZeroAxes
    /\ self.delta_pos = zeros3
    /\ ~self.close_gripper

\* C8: a poll with both buttons pressed toggles read_rotation, and read_rotation has
\* no effect: two objects fed the same samples and calls, started with different
\* read_rotation, keep equal delta_pos, delta_rot and close_gripper and every
\* advance() returns the same pair on both.
C8_ReadRotationNoEffect ==
    [][ /\ (pc = "buttons" /\ IsBoth(Sample.buttons))
            => self'.read_rotation = ~self.read_rotation
        /\ twin'.read_rotation # self'.read_rotation
        /\ twin'.delta_pos = self'.delta_pos
        /\ twin'.delta_rot = self'.delta_rot
        /\ twin'.close_gripper = self'.close_gripper
        /\ twin_ret' = ret' ]_vars

C8_Witness ==
    /\ op = "advance"
    /\ self.read_rotation
    /\ ~twin.read_rotation
    /\ IsBoth(Sample.buttons)
    /\ ret = twin_ret
    /\ SubSeq(ret[1], 4, 6) # zeros3

\* C9: after a poll whose six axes are all zero, advance() returns the zero 6-vector
\* and the stored close_gripper, which it leaves as it is.
C9_ZeroAxesZeroPose ==
    /\ (op = "poll" /\ Sample.axes = ZeroAxes)
          => /\ advance(self).value = <<ZeroAxes, self.close_gripper>>
             /\ advance(self).obj.close_gripper = self.close_gripper
    /\ (op = "advance" /\ Sample.axes = ZeroAxes)
          => ret = <<ZeroAxes, self.close_gripper>>

C9_Witness ==
    /\ op = "advance"
    /\ Sample.axes = ZeroAxes
    /\ IsLeftOnly(Sample.buttons)
    /\ self.close_gripper
    /\ ret = <<ZeroAxes, TRUE>>

\* C10: every left-only poll invokes the callback registered under "L", and every
\* right-only poll the callback registered under "R".
C10_CallbacksInvoked ==
    ButtonsDone
        => /\ (IsLeftOnly(Sample.buttons) /\ "L" \in self.additional_callbacks) => "L" \in called
           /\ (IsRightOnly(Sample.buttons) /\ "R" \in self.additional_callbacks) => "R" \in called

\* C11: every execution of the poll handler arms the timer again exactly once, as its
\* first step, before the device is read and whatever branch the buttons select; so
\* with a timer that expires, every poll is followed by another one and polling does
\* not stop.
C11_TimerRearmedEveryPoll ==
    /\ [][ pc # "idle"
             => /\ timers' = timers + (IF pc = "start_timer" THEN 1 ELSE 0)
                /\ pc = "start_timer" => pc' = "read" /\ self' = self ]_vars
    /\ [](op = "poll" => timers = 1)
    /\ (op = "poll") ~> (op = "fire")
    /\ (op = "fire") ~> (op = "poll")

\* A second poll, its timer armed again, about to read the device.
C11_Witness ==
    /\ pc = "read"
    /\ op = "start_timer"
    /\ timers = 1
    /\ branch = "right"

\* C12: the three button actions exclude one another within a poll and each touches
\* its own flag only: a left-only poll toggles close_gripper, leaves read_rotation
\* and does not reset the deltas; a right-only poll leaves read_rotation and ends with
\* close_gripper false, not toggled; a both-pressed poll toggles read_rotation and
\* leaves close_gripper; a poll with no button pressed leaves both flags; the rest
\* of the poll changes neither flag.
C12_ButtonBranchesFrame ==
    [][ /\ pc = "buttons" =>
              LET b == Sample.buttons IN
              /\ (b[1] /\ ~b[2]) => /\ self'.read_rotation = self.read_rotation
                                    /\ self'.close_gripper = ~self.close_gripper
                                    /\ self'.delta_pos = self.delta_pos
                                    /\ self'.delta_rot = self.delta_rot
              /\ (b[2] /\ ~b[1]) => /\ self'.read_rotation = self.read_rotation
                                    /\ self'.close_gripper = FALSE
              /\ (b[1] /\ b[2])  => /\ self'.close_gripper = self.close_gripper
                                    /\ self'.read_rotation = ~self.read_rotation
              /\ (~b[1] /\ ~b[2]) => /\ self'.close_gripper = self.close_gripper
                                     /\ self'.read_rotation = self.read_rotation
        /\ pc \in {"start_timer", "read", "twist"} =>
              /\ self'.close_gripper = self.close_gripper
              /\ self'.read_rotation = self.read_rotation ]_vars

\* A both-pressed poll, just past its button chain, the gripper closed before it.
C12_Witness ==
    /\ op = "buttons"
    /\ branch = "both"
    /\ IsBoth(Sample.buttons)
    /\ self.close_gripper
    /\ self.read_rotation
    /\ self.delta_pos # zeros3

\* C13: close_gripper is true exactly when the number of left-only polls since the
\* latest of construction, the last reset() call and the last right-only poll is
\* odd; read_rotation is true exactly when the number of both-pressed polls since
\* construction is odd; before the first poll both are false and both deltas zero.
\* A poll counts from the moment its button chain has run.
C13_FlagsAreParities ==
    /\ self.close_gripper = left_odd
    /\ self.read_rotation = both_odd
    /\ ~polled => /\ ~self.close_gripper
                  /\ ~self.read_rotation
                  /\ self.delta_pos = zeros3
                  /\ self.delta_rot = zeros3

\* Three left-only polls in a row after a both-pressed one: both counts odd.
C13_Witness ==
    /\ op = "poll"
    /\ held = 3
    /\ left_odd
    /\ both_odd
    /\ self.close_gripper
    /\ self.read_rotation
====
